---- MODULE Spec2Model ----
(***************************************************************************)
(* User-account slice of todo-app: the gin handlers, the user service and  *)
(* the postgres repository, modelled as a state machine over the users     *)
(* table.  Every handler that issues a single storage statement is one     *)
(* action; Register issues two statements (the email lookup and the        *)
(* insert) and is therefore two actions, so that concurrent registrations  *)
(* interleave between the pre-check and the Save.                          *)
(***************************************************************************)
EXTENDS Integers, Sequences, FiniteSets, TLC

VARIABLES users, pc, data, usedIDs, expiry, last, reg

vars == <<users, pc, data, usedIDs, expiry, last, reg>>

(* ------------------------------ bounds --------------------------------- *)
NumProcs == 2
MaxIDs == 2

Procs == 1..NumProcs
IDs == 1..MaxIDs
BadID == 0
PathIDs == IDs \cup {BadID}
Emails == {"a@x", "b@x"}
Passwords == {<<"p">>, <<"q">>}
SaltChars == {"s", "t"}
NewPasswords == {<<"r">>}
Expiries == {60, 3600}

(* --------------------------- error values ------------------------------ *)
\* Errors are sequences of strings; the empty sequence is Go's nil error and
\* a wrapping error is its own tag followed by the error it wraps.
Nil == <<>>
ErrRecordNotFound == <<"ErrRecordNotFound">>
ErrDB(err) == <<"ErrDB">> \o err
ErrInvalidRequest(err) == <<"ErrInvalidRequest">> \o err
ErrInternal(err) == <<"ErrInternal">> \o err
ErrEmailExisted == <<"ErrEmailExisted">>
ErrEmailOrPasswordInvalid == <<"ErrEmailOrPasswordInvalid">>
ErrCannotCreateEntity(err) == <<"ErrCannotCreateEntity", "users">> \o err
ErrCannotListEntity(err) == <<"ErrCannotListEntity", "users">> \o err
ErrCannotGetEntity(err) == <<"ErrCannotGetEntity", "users">> \o err
ErrCannotUpdateEntity(err) == <<"ErrCannotUpdateEntity", "users">> \o err
ErrCannotDeleteEntity(err) == <<"ErrCannotDeleteEntity", "users">> \o err

\* Errors raised by the collaborators below the repository and the handlers.
ConnFailure == <<"connection failure">>
UniqueViolation == <<"duplicate key value violates unique constraint">>
BindFailure == <<"bind failure">>
ValidateFailure == <<"validation failure">>
ParseFailure == <<"invalid UUID">>
GenerateFailure == <<"cannot generate token">>
IDMismatch == <<"unauthorized: ID does not match">>

StatusOK == 200
StatusBadRequest == 400
StatusUnauthorized == 401

(* ---------------------------- collaborators ---------------------------- *)
SaltLen == 50
DefaultRole == 1

\* util.GenSalt(n): the salts the generator can return, all of length n.
GenSalt(n) == { [i \in 1..n |-> c] : c \in SaltChars }

\* Hasher.Hash: deterministic and one-way; the digest of a string is never
\* the string itself and distinct strings have distinct digests.
Hash(s) == <<"#">> \o s

\* Role.String of the domain package.
RoleString(r) == IF r = 1 THEN "regular" ELSE "admin"

\* UserCreate.Validate: the shape check of the creation payload.
Validate(d) == IF d.email = "" \/ d.password = <<>> THEN ValidateFailure ELSE Nil

\* tokenprovider.Provider.Generate
NoToken == [uid |-> BadID, urole |-> "", expiry |-> 0]
Generate(payload, exp, fault) ==
    IF fault THEN [token |-> NoToken, err |-> GenerateFailure]
    ELSE [token |-> [uid |-> payload.uid, urole |-> payload.urole, expiry |-> exp],
          err |-> Nil]

\* uuid.Parse of the path parameter.
Parse(s) == IF s \in IDs THEN [id |-> s, err |-> Nil] ELSE [id |-> BadID, err |-> ParseFailure]

(* ------------------------------ storage -------------------------------- *)
NoUser == [id |-> BadID, email |-> "", password |-> <<>>, salt |-> <<>>, role |-> 0]

\* gorm Create on the users table: the primary key and the unique email
\* index reject a duplicate row.
dbCreate(tbl, row, fault) ==
    IF fault THEN [users |-> tbl, err |-> ConnFailure]
    ELSE IF \E u \in tbl : u.email = row.email \/ u.id = row.id
         THEN [users |-> tbl, err |-> UniqueViolation]
         ELSE [users |-> tbl \cup {row}, err |-> Nil]

\* gorm Where(conditions).First: the matching row with the least primary key.
Matching(tbl, field, value) ==
    { u \in tbl : IF field = "email" THEN u.email = value ELSE u.id = value }

First(rows) == CHOOSE u \in rows : \A v \in rows : u.id <= v.id

(* ----------------------------- repository ------------------------------ *)
\* Save dropping the error of Create.
repoSave_ErrorDropped(tbl, row, fault) ==
    [users |-> dbCreate(tbl, row, fault).users, err |-> Nil]

repoSave(tbl, row, fault) ==
    LET r == dbCreate(tbl, row, fault) IN
    IF r.err # Nil THEN [users |-> r.users, err |-> ErrDB(r.err)]
    ELSE [users |-> r.users, err |-> Nil]

repoGetUser(tbl, field, value, fault) ==
    IF fault THEN [found |-> FALSE, user |-> NoUser, err |-> ErrDB(ConnFailure)]
    ELSE IF Matching(tbl, field, value) = {}
         THEN [found |-> FALSE, user |-> NoUser, err |-> ErrRecordNotFound]
         ELSE [found |-> TRUE, user |-> First(Matching(tbl, field, value)), err |-> Nil]

repoGetAll(tbl, fault) ==
    IF fault THEN [users |-> {}, err |-> ErrDB(ConnFailure)]
    ELSE [users |-> tbl, err |-> Nil]

\* Updates(&user) writes the non-zero fields of the payload to the rows whose
\* id matches; no matching row is not an error.
repoUpdate(tbl, id, upd, fault) ==
    IF fault THEN [users |-> tbl, err |-> ErrDB(ConnFailure)]
    ELSE [users |-> { IF u.id = id /\ upd.password # <<>>
                      THEN [u EXCEPT !.password = upd.password]
                      ELSE u : u \in tbl },
          err |-> Nil]

\* Delete removes the rows whose id matches; no matching row is not an error.
repoDelete(tbl, id, fault) ==
    IF fault THEN [users |-> tbl, err |-> ErrDB(ConnFailure)]
    ELSE [users |-> { u \in tbl : u.id # id }, err |-> Nil]

(* ------------------------------ service -------------------------------- *)
NoCall == [name |-> "", id |-> BadID]
Call(name, id) == [name |-> name, id |-> id]

\* Register without the `user != nil` test after the lookup.
svcRegisterCheck_NoExistenceTest(tbl, d, fault) ==
    IF Validate(d) # Nil
    THEN [ok |-> FALSE, err |-> ErrInvalidRequest(Validate(d)), lookup |-> Nil,
          repo |-> <<>>]
    ELSE LET r == repoGetUser(tbl, "email", d.email, fault) IN
         IF r.err # Nil /\ r.err # ErrRecordNotFound
         THEN [ok |-> FALSE, err |-> r.err, lookup |-> r.err, repo |-> <<"GetUser">>]
         ELSE [ok |-> TRUE, err |-> Nil, lookup |-> r.err, repo |-> <<"GetUser">>]

\* Register going on to Save whatever error the lookup returned.
svcRegisterCheck_AnyLookupError(tbl, d, fault) ==
    IF Validate(d) # Nil
    THEN [ok |-> FALSE, err |-> ErrInvalidRequest(Validate(d)), lookup |-> Nil,
          repo |-> <<>>]
    ELSE LET r == repoGetUser(tbl, "email", d.email, fault) IN
         IF r.found
         THEN [ok |-> FALSE, err |-> ErrEmailExisted, lookup |-> r.err,
               repo |-> <<"GetUser">>]
         ELSE [ok |-> TRUE, err |-> Nil, lookup |-> r.err, repo |-> <<"GetUser">>]

\* Register up to the point where the lookup has answered: validation, the
\* email lookup and the existence check.
svcRegisterCheck(tbl, d, fault) ==
    IF Validate(d) # Nil
    THEN [ok |-> FALSE, err |-> ErrInvalidRequest(Validate(d)), lookup |-> Nil,
          repo |-> <<>>]
    ELSE LET r == repoGetUser(tbl, "email", d.email, fault) IN
         IF r.err # Nil /\ r.err # ErrRecordNotFound
         THEN [ok |-> FALSE, err |-> r.err, lookup |-> r.err, repo |-> <<"GetUser">>]
         ELSE IF r.found
              THEN [ok |-> FALSE, err |-> ErrEmailExisted, lookup |-> r.err,
                    repo |-> <<"GetUser">>]
              ELSE [ok |-> TRUE, err |-> Nil, lookup |-> r.err, repo |-> <<"GetUser">>]

\* The payload handed to Save with the password left as it was received.
Prepare_Plaintext(d, id, salt) ==
    [id |-> id, email |-> d.email, password |-> d.password,
     salt |-> salt, role |-> DefaultRole]

\* The payload as Register hands it to Save: salt, id, hashed password, role.
Prepare(d, id, salt) ==
    [id |-> id, email |-> d.email, password |-> Hash(d.password \o salt),
     salt |-> salt, role |-> DefaultRole]

\* Register from the generation of the salt on.
svcRegisterSave(tbl, d, id, salt, fault) ==
    LET r == repoSave(tbl, Prepare(d, id, salt), fault) IN
    IF r.err # Nil THEN [users |-> r.users, err |-> ErrCannotCreateEntity(r.err)]
    ELSE [users |-> r.users, err |-> Nil]

\* Login telling the caller what the lookup said.
svcLogin_LookupErrorShown(tbl, d, exp, lookupFault, tokenFault) ==
    LET r == repoGetUser(tbl, "email", d.email, lookupFault) IN
    IF r.err # Nil THEN [token |-> NoToken, err |-> r.err]
    ELSE LET user == r.user
             passHashed == Hash(d.password \o user.salt)
         IN IF user.password # passHashed
            THEN [token |-> NoToken, err |-> ErrEmailOrPasswordInvalid]
            ELSE LET payload == [uid |-> user.id, urole |-> RoleString(user.role)]
                     g == Generate(payload, exp, tokenFault)
                 IN IF g.err # Nil THEN [token |-> NoToken, err |-> ErrInternal(g.err)]
                    ELSE [token |-> g.token, err |-> Nil]

\* Login hashing the supplied password without the stored salt.
svcLogin_Unsalted(tbl, d, exp, lookupFault, tokenFault) ==
    LET r == repoGetUser(tbl, "email", d.email, lookupFault) IN
    IF r.err # Nil THEN [token |-> NoToken, err |-> ErrEmailOrPasswordInvalid]
    ELSE LET user == r.user
             passHashed == Hash(d.password)
         IN IF user.password # passHashed
            THEN [token |-> NoToken, err |-> ErrEmailOrPasswordInvalid]
            ELSE LET payload == [uid |-> user.id, urole |-> RoleString(user.role)]
                     g == Generate(payload, exp, tokenFault)
                 IN IF g.err # Nil THEN [token |-> NoToken, err |-> ErrInternal(g.err)]
                    ELSE [token |-> g.token, err |-> Nil]

svcLogin(tbl, d, exp, lookupFault, tokenFault) ==
    LET r == repoGetUser(tbl, "email", d.email, lookupFault) IN
    IF r.err # Nil THEN [token |-> NoToken, err |-> ErrEmailOrPasswordInvalid]
    ELSE LET user == r.user
             passHashed == Hash(d.password \o user.salt)
         IN IF user.password # passHashed
            THEN [token |-> NoToken, err |-> ErrEmailOrPasswordInvalid]
            ELSE LET payload == [uid |-> user.id, urole |-> RoleString(user.role)]
                     g == Generate(payload, exp, tokenFault)
                 IN IF g.err # Nil THEN [token |-> NoToken, err |-> ErrInternal(g.err)]
                    ELSE [token |-> g.token, err |-> Nil]

svcGetAllUser(tbl, fault) ==
    LET r == repoGetAll(tbl, fault) IN
    IF r.err # Nil THEN [users |-> {}, err |-> ErrCannotListEntity(r.err)]
    ELSE [users |-> r.users, err |-> Nil]

svcGetUserByID(tbl, id, fault) ==
    LET r == repoGetUser(tbl, "id", id, fault) IN
    IF r.err # Nil THEN [user |-> NoUser, err |-> ErrCannotGetEntity(r.err)]
    ELSE [user |-> r.user, err |-> Nil]

svcUpdateUser(tbl, id, upd, fault) ==
    LET r == repoUpdate(tbl, id, upd, fault) IN
    IF r.err # Nil THEN [users |-> r.users, err |-> ErrCannotUpdateEntity(r.err)]
    ELSE [users |-> r.users, err |-> Nil]

svcDeleteUser(tbl, id, fault) ==
    LET r == repoDelete(tbl, id, fault) IN
    IF r.err # Nil THEN [users |-> r.users, err |-> ErrCannotDeleteEntity(r.err)]
    ELSE [users |-> r.users, err |-> Nil]

(* ------------------------------ handlers ------------------------------- *)
\* What a handler did: the request, the response written with c.JSON, the
\* service method it invoked with the error that came back, and the
\* repository methods reached.
Done(op, req, status, err, out, svc, svcErr, repo, fault) ==
    [op |-> op, req |-> req, status |-> status, err |-> err, out |-> out,
     svc |-> svc, svcErr |-> svcErr, repo |-> repo, fault |-> fault]

\* No response on the wire.
Boot == Done("", {}, 0, Nil, {}, NoCall, Nil, <<>>, FALSE)

LoginHandler(tbl, body, exp, lookupFault, tokenFault) ==
    IF ~body.bind
    THEN Done("Login", body, StatusBadRequest, ErrInvalidRequest(BindFailure), NoToken,
              NoCall, Nil, <<>>, FALSE)
    ELSE LET r == svcLogin(tbl, body, exp, lookupFault, tokenFault) IN
         IF r.err # Nil
         THEN Done("Login", body, StatusBadRequest, r.err, NoToken,
                   Call("Login", BadID), r.err, <<"GetUser">>, lookupFault)
         ELSE Done("Login", body, StatusOK, Nil, r.token,
                   Call("Login", BadID), Nil, <<"GetUser">>, lookupFault)

GetAllUserHandler(tbl, fault) ==
    LET r == svcGetAllUser(tbl, fault) IN
    IF r.err # Nil
    THEN Done("GetAllUser", {}, StatusBadRequest, ErrInvalidRequest(r.err), {},
              Call("GetAllUser", BadID), r.err, <<"GetAll">>, fault)
    ELSE Done("GetAllUser", {}, StatusOK, Nil, r.users,
              Call("GetAllUser", BadID), Nil, <<"GetAll">>, fault)

\* The handler looking up the id of the path instead of the requester's.
GetUserHandler_ByPath(tbl, path, requester, fault) ==
    LET req == [path |-> path, requester |-> requester]
        r == svcGetUserByID(tbl, path, fault)
    IN IF r.err # Nil
       THEN Done("GetUser", req, StatusBadRequest, r.err, NoUser,
                 Call("GetUserByID", path), r.err, <<"GetUser">>, fault)
       ELSE Done("GetUser", req, StatusOK, Nil, r.user,
                 Call("GetUserByID", path), Nil, <<"GetUser">>, fault)

GetUserHandler(tbl, path, requester, fault) ==
    LET req == [path |-> path, requester |-> requester]
        r == svcGetUserByID(tbl, requester, fault)
    IN IF r.err # Nil
       THEN Done("GetUser", req, StatusBadRequest, r.err, NoUser,
                 Call("GetUserByID", requester), r.err, <<"GetUser">>, fault)
       ELSE Done("GetUser", req, StatusOK, Nil, r.user,
                 Call("GetUserByID", requester), Nil, <<"GetUser">>, fault)

\* No comparison of the requester with the target id.
Authorized_Anyone(requester, id) == TRUE

\* The requester the middleware injected is the owner of the target id.
Authorized(requester, id) == requester = id

\* The handler's result together with the table the request leaves behind.
UpdateUserHandler(tbl, path, body, requester, fault) ==
    LET req == [path |-> path, requester |-> requester, body |-> body]
        p == Parse(path)
    IN IF p.err # Nil
       THEN [users |-> tbl,
             done |-> Done("UpdateUser", req, StatusBadRequest, ErrInvalidRequest(p.err),
                           FALSE, NoCall, Nil, <<>>, FALSE)]
       ELSE IF ~body.bind
       THEN [users |-> tbl,
             done |-> Done("UpdateUser", req, StatusBadRequest,
                           ErrInvalidRequest(BindFailure), FALSE, NoCall, Nil, <<>>, FALSE)]
       ELSE IF ~Authorized(requester, p.id)
       THEN [users |-> tbl,
             done |-> Done("UpdateUser", req, StatusUnauthorized,
                           ErrInvalidRequest(IDMismatch), FALSE, NoCall, Nil, <<>>, FALSE)]
       ELSE LET r == svcUpdateUser(tbl, p.id, body, fault) IN
            IF r.err # Nil
            THEN [users |-> r.users,
                  done |-> Done("UpdateUser", req, StatusBadRequest, r.err, FALSE,
                                Call("UpdateUser", p.id), r.err, <<"Update">>, fault)]
            ELSE [users |-> r.users,
                  done |-> Done("UpdateUser", req, StatusOK, Nil, TRUE,
                                Call("UpdateUser", p.id), Nil, <<"Update">>, fault)]

DeleteUserHandler(tbl, path, fault) ==
    LET req == [path |-> path]
        p == Parse(path)
    IN IF p.err # Nil
       THEN [users |-> tbl,
             done |-> Done("DeleteUser", req, StatusBadRequest, ErrInvalidRequest(p.err),
                           FALSE, NoCall, Nil, <<>>, FALSE)]
       ELSE LET r == svcDeleteUser(tbl, p.id, fault) IN
            IF r.err # Nil
            THEN [users |-> r.users,
                  done |-> Done("DeleteUser", req, StatusBadRequest, r.err, FALSE,
                                Call("DeleteUser", p.id), r.err, <<"Delete">>, fault)]
            ELSE [users |-> r.users,
                  done |-> Done("DeleteUser", req, StatusOK, Nil, TRUE,
                                Call("DeleteUser", p.id), Nil, <<"Delete">>, fault)]

\* RegisterUserHandler up to the point where the lookup has answered.
RegisterUserHandlerCheck(tbl, body, fault) ==
    IF ~body.bind
    THEN [ok |-> FALSE, lookup |-> Nil,
          done |-> Done("Register", body, StatusBadRequest, ErrInvalidRequest(BindFailure),
                        BadID, NoCall, Nil, <<>>, FALSE)]
    ELSE LET r == svcRegisterCheck(tbl, body, fault) IN
         IF ~r.ok
         THEN [ok |-> FALSE, lookup |-> r.lookup,
               done |-> Done("Register", body, StatusBadRequest, r.err, BadID,
                             Call("Register", BadID), r.err, r.repo, fault)]
         ELSE [ok |-> TRUE, lookup |-> r.lookup, done |-> Boot]

\* RegisterUserHandler from the generation of the salt on.  On success `out`
\* is what the payload holds after the call: the id the response carries and
\* the salt set on it.
RegisterUserHandlerSave(tbl, body, id, salt, fault) ==
    LET r == svcRegisterSave(tbl, body, id, salt, fault) IN
    IF r.err # Nil
    THEN [users |-> r.users,
          done |-> Done("Register", body, StatusBadRequest, r.err, BadID,
                        Call("Register", BadID), r.err, <<"GetUser", "Save">>, fault)]
    ELSE [users |-> r.users,
          done |-> Done("Register", body, StatusOK, Nil, [id |-> id, salt |-> salt],
                        Call("Register", BadID), Nil, <<"GetUser", "Save">>, fault)]

(* ------------------------------ requests ------------------------------- *)
\* A body ShouldBind rejects carries nothing; one that binds carries its fields.
CreateBodies ==
    {[bind |-> FALSE, email |-> "", password |-> <<>>]}
    \cup [bind : {TRUE}, email : Emails \cup {""}, password : Passwords \cup {<<>>}]
LoginBodies ==
    {[bind |-> FALSE, email |-> "", password |-> <<>>]}
    \cup [bind : {TRUE}, email : Emails, password : Passwords]
UpdateBodies ==
    {[bind |-> FALSE, password |-> <<>>]}
    \cup [bind : {TRUE}, password : NewPasswords \cup {<<>>}]

NoData == [body |-> [bind |-> FALSE, email |-> "", password |-> <<>>], lookup |-> Nil]
NoReg == [id |-> BadID, password |-> <<>>, modified |-> FALSE]

\* After construction: an empty table, no request in flight, and the expiry
\* NewUserService was given.
Init ==
    /\ users = {}
    /\ pc = [p \in Procs |-> "idle"]
    /\ data = [p \in Procs |-> NoData]
    /\ usedIDs = {}
    /\ expiry \in Expiries
    /\ last = Boot
    /\ reg = [e \in Emails |-> NoReg]

\* A registration that got past the lookup and has not yet reached Save.
Saving == { p \in Procs : pc[p] = "save" }

\* uuid.New never repeats an id: a registration is admitted past the lookup
\* only while an id it can draw is left.
RegisterCheck(p) ==
    /\ last = Boot
    /\ pc[p] = "idle"
    /\ \E body \in CreateBodies, fault \in BOOLEAN :
          LET h == RegisterUserHandlerCheck(users, body, fault) IN
          /\ h.ok => Cardinality(usedIDs) + Cardinality(Saving) < MaxIDs
          /\ last' = h.done
          /\ IF h.ok
             THEN /\ pc' = [pc EXCEPT ![p] = "save"]
                  /\ data' = [data EXCEPT ![p] = [body |-> body, lookup |-> h.lookup]]
             ELSE UNCHANGED <<pc, data>>
    /\ UNCHANGED <<users, usedIDs, expiry, reg>>

RegisterSave(p) ==
    /\ last = Boot
    /\ pc[p] = "save"
    /\ \E id \in IDs \ usedIDs, salt \in GenSalt(SaltLen), fault \in BOOLEAN :
          LET h == RegisterUserHandlerSave(users, data[p].body, id, salt, fault)
              e == data[p].body.email
          IN /\ last' = h.done
             /\ users' = h.users
             /\ IF h.done.status = StatusOK
                THEN /\ reg' = [reg EXCEPT ![e] = [id |-> id,
                                                   password |-> data[p].body.password,
                                                   modified |-> FALSE]]
                     /\ usedIDs' = usedIDs \cup {id}
                ELSE UNCHANGED <<reg, usedIDs>>
    /\ pc' = [pc EXCEPT ![p] = "idle"]
    /\ data' = [data EXCEPT ![p] = NoData]
    /\ UNCHANGED expiry

Login ==
    /\ last = Boot
    /\ \E body \in LoginBodies, lookupFault \in BOOLEAN, tokenFault \in BOOLEAN :
          last' = LoginHandler(users, body, expiry, lookupFault, tokenFault)
    /\ UNCHANGED <<users, pc, data, usedIDs, expiry, reg>>

GetAllUsers ==
    /\ last = Boot
    /\ \E fault \in BOOLEAN : last' = GetAllUserHandler(users, fault)
    /\ UNCHANGED <<users, pc, data, usedIDs, expiry, reg>>

GetUser ==
    /\ last = Boot
    /\ \E path \in PathIDs, requester \in IDs, fault \in BOOLEAN :
          last' = GetUserHandler(users, path, requester, fault)
    /\ UNCHANGED <<users, pc, data, usedIDs, expiry, reg>>

UpdateUser ==
    /\ last = Boot
    /\ \E path \in PathIDs, body \in UpdateBodies, requester \in IDs, fault \in BOOLEAN :
          LET h == UpdateUserHandler(users, path, body, requester, fault) IN
          /\ last' = h.done
          /\ users' = h.users
          /\ reg' = [e \in Emails |->
                       IF h.users # users /\ reg[e].id = path
                       THEN [reg[e] EXCEPT !.modified = TRUE] ELSE reg[e]]
    /\ UNCHANGED <<pc, data, usedIDs, expiry>>

DeleteUser ==
    /\ last = Boot
    /\ \E path \in PathIDs, fault \in BOOLEAN :
          LET h == DeleteUserHandler(users, path, fault) IN
          /\ last' = h.done
          /\ users' = h.users
          /\ reg' = [e \in Emails |->
                       IF h.users # users /\ reg[e].id = path THEN NoReg ELSE reg[e]]
    /\ UNCHANGED <<pc, data, usedIDs, expiry>>

\* The response written with c.JSON leaves for the client.  Handlers are
\* observed one response at a time: `last` holds the response on the wire and
\* nothing else of the program reads it.
Deliver ==
    /\ last # Boot
    /\ last' = Boot
    /\ UNCHANGED <<users, pc, data, usedIDs, expiry, reg>>

Next ==
    \/ \E p \in Procs : RegisterCheck(p)
    \/ \E p \in Procs : RegisterSave(p)
    \/ Login
    \/ GetAllUsers
    \/ GetUser
    \/ UpdateUser
    \/ DeleteUser
    \/ Deliver

Spec == Init /\ [][Next]_vars

\* Registrations only: the requests that race on one email.
NextRegister ==
    \/ \E p \in Procs : RegisterCheck(p)
    \/ \E p \in Procs : RegisterSave(p)
    \/ Deliver

SpecRegister == Init /\ [][NextRegister]_vars

(* ------------------------------- claims -------------------------------- *)
\* A step in which a Register call answers from before its Save: the response
\* is a Register response and no registration left the "save" position.
RegisterAnsweredEarly == last = Boot /\ last'.op = "Register" /\ pc' = pc

\* A valid creation payload carrying an email whose registration succeeded
\* and whose user has not been deleted since.
Reregistration(body) ==
    body.bind /\ Validate(body) = Nil /\ reg[body.email] # NoReg

\* C1 as stated: once Register succeeded for an email and the user was not
\* deleted, every later Register with a valid payload for that email fails
\* with ErrEmailExisted, never reaches Save and leaves the table unchanged.
C1_Original ==
    [][/\ \A p \in Procs : pc[p] = "idle" /\ pc'[p] = "save"
                               => reg[data'[p].body.email] = NoReg
       /\ (RegisterAnsweredEarly /\ Reregistration(last'.req))
            => /\ last'.status = StatusBadRequest
               /\ last'.err = ErrEmailExisted
               /\ last'.repo = <<"GetUser">>
               /\ users' = users]_vars

\* C1 amended: such a later Register always fails without reaching Save and
\* leaves the table unchanged; it fails with ErrEmailExisted when the lookup
\* answers, and with the lookup's own error when the lookup fails.
C1_Amended ==
    [][/\ \A p \in Procs : pc[p] = "idle" /\ pc'[p] = "save"
                               => reg[data'[p].body.email] = NoReg
       /\ (RegisterAnsweredEarly /\ Reregistration(last'.req))
            => /\ last'.status = StatusBadRequest
               /\ last'.err = (IF last'.fault THEN ErrDB(ConnFailure) ELSE ErrEmailExisted)
               /\ last'.repo = <<"GetUser">>
               /\ users' = users]_vars

C1_Witness ==
    /\ last.op = "Register"
    /\ last.err = ErrEmailExisted
    /\ reg[last.req.email] # NoReg
    /\ \E u \in users : u.email = last.req.email

\* C10: Save is reached only after validation passed and the lookup returned
\* NotFound; an invalid payload fails with ErrInvalidRequest without any
\* repository call; a lookup error other than NotFound is returned as it is,
\* without Save; a Save failure is returned as ErrCannotCreateEntity wrapping
\* the repository error; no failing Register adds a user.
C10_SaveGuarded ==
    [][/\ \A p \in Procs : pc'[p] = "save"
            => Validate(data'[p].body) = Nil /\ data'[p].lookup = ErrRecordNotFound
       /\ (last = Boot /\ last'.op = "Register" /\ last'.req.bind)
            => /\ (\E i \in 1..Len(last'.repo) : last'.repo[i] = "Save")
                    => \E p \in Procs : pc[p] = "save" /\ pc'[p] = "idle"
               /\ last'.status = StatusBadRequest =>
                    /\ users' = users
                    /\ Validate(last'.req) # Nil
                         => /\ last'.err = ErrInvalidRequest(ValidateFailure)
                            /\ last'.repo = <<>>
                    /\ (last'.repo = <<"GetUser">> /\ last'.fault)
                         => last'.err = ErrDB(ConnFailure)
                    /\ last'.repo = <<"GetUser", "Save">>
                         => /\ last'.err \in {ErrCannotCreateEntity(ErrDB(ConnFailure)),
                                               ErrCannotCreateEntity(ErrDB(UniqueViolation))}
                            /\ last'.err = last'.svcErr]_vars

C10_Witness ==
    /\ last.op = "Register"
    /\ last.err = ErrDB(ConnFailure)
    /\ last.repo = <<"GetUser">>
    /\ \E p \in Procs : pc[p] = "save"

\* The stored rows a login with this body would be compared against.
Stored(email) == Matching(users, "email", email)

\* The supplied password is the one the stored row was hashed from.
Matches(u, password) == u.password = Hash(password \o u.salt)

\* C2: a Login for an email that is not stored, a Login with a password that
\* does not match the stored row, and a Login whose lookup fails all get the
\* same response: 400 with ErrEmailOrPasswordInvalid and no token.
C2_LoginFailuresAlike ==
    (/\ last.op = "Login"
     /\ last.req.bind
     /\ \/ last.fault
        \/ Stored(last.req.email) = {}
        \/ \A u \in Stored(last.req.email) : ~Matches(u, last.req.password))
    => /\ last.status = StatusBadRequest
       /\ last.err = ErrEmailOrPasswordInvalid
       /\ last.out = NoToken

C2_Witness ==
    /\ last.op = "Login"
    /\ ~last.fault
    /\ \E u \in Stored(last.req.email) :
          ~Matches(u, last.req.password) /\ reg[u.email].id = u.id /\ ~reg[u.email].modified
    /\ last.err = ErrEmailOrPasswordInvalid

\* C3 as stated: an update whose requester is not the target id the path
\* supplies is answered 401, never reaches UpdateUser and leaves every row
\* unchanged; UpdateUser is only ever invoked with the requester's id.
C3_Original ==
    [][(last = Boot /\ last'.op = "UpdateUser")
        => /\ (Parse(last'.req.path).err = Nil
                /\ last'.req.requester # Parse(last'.req.path).id)
               => /\ last'.status = StatusUnauthorized
                  /\ last'.svc = NoCall
                  /\ last'.repo = <<>>
                  /\ users' = users
           /\ last'.svc # NoCall => last'.svc = Call("UpdateUser", last'.req.requester)]_vars

\* C3 amended: such an update never reaches UpdateUser and leaves every row
\* unchanged; it is answered 401 when the path id parses and the body binds,
\* and 400 when one of them does not, as both are decoded before the
\* comparison; UpdateUser is only ever invoked with the requester's id.
C3_Amended ==
    [][(last = Boot /\ last'.op = "UpdateUser")
        => /\ last'.req.requester # last'.req.path
               => /\ last'.status =
                        (IF Parse(last'.req.path).err = Nil /\ last'.req.body.bind
                         THEN StatusUnauthorized ELSE StatusBadRequest)
                  /\ last'.svc = NoCall
                  /\ last'.repo = <<>>
                  /\ users' = users
           /\ last'.svc # NoCall => last'.svc = Call("UpdateUser", last'.req.requester)]_vars

C3_Witness ==
    /\ last.op = "UpdateUser"
    /\ last.status = StatusUnauthorized
    /\ last.req.body.password # <<>>
    /\ \E u \in users : u.id = last.req.path
    /\ \E u \in users : u.id = last.req.requester

\* C4: right after a successful Register, GetUserByID of the id the response
\* carries returns a user with the payload's email, the default role, the
\* generated salt, and as password Hash(plaintext + stored salt), which is
\* not the plaintext.
C4_RoundTrip ==
    (last.op = "Register" /\ last.status = StatusOK)
    => LET g == svcGetUserByID(users, last.out.id, FALSE) IN
       /\ g.err = Nil
       /\ g.user.id = last.out.id
       /\ g.user.email = last.req.email
       /\ g.user.role = DefaultRole
       /\ g.user.salt = last.out.salt
       /\ g.user.salt \in GenSalt(SaltLen)
       /\ g.user.password = Hash(last.req.password \o g.user.salt)
       /\ g.user.password # last.req.password

C4_Witness ==
    /\ last.op = "Register"
    /\ last.status = StatusOK
    /\ Cardinality(users) = 2
    /\ \E u \in users : u.id = last.out.id /\ u.email = last.req.email

\* A login body carrying the email and password of a registration that has
\* been neither deleted nor modified since.
CorrectCredentials(body) ==
    /\ body.bind
    /\ reg[body.email] # NoReg
    /\ ~reg[body.email].modified
    /\ reg[body.email].password = body.password

\* The token Login is to return for the stored row of this email.
TokenFor(email) ==
    LET u == First(Stored(email)) IN
    [uid |-> u.id, urole |-> RoleString(u.role), expiry |-> expiry]

\* C5 as stated: a Login with the credentials of an unmodified registration
\* returns a non-empty token for the stored id and role with the configured
\* expiry, and can only fail with ErrInternal, when Generate fails.
C5_Original ==
    (last.op = "Login" /\ CorrectCredentials(last.req))
    => \/ /\ last.status = StatusOK
          /\ last.out # NoToken
          /\ last.out = TokenFor(last.req.email)
          /\ last.out.uid = reg[last.req.email].id
       \/ /\ last.status = StatusBadRequest
          /\ last.err = ErrInternal(GenerateFailure)

\* C5 amended: such a Login passes the comparison and returns that token
\* whenever the lookup answers; it fails with ErrInternal when Generate
\* fails, and with ErrEmailOrPasswordInvalid when the lookup itself fails.
C5_Amended ==
    (last.op = "Login" /\ CorrectCredentials(last.req))
    => \/ /\ last.status = StatusOK
          /\ ~last.fault
          /\ last.out # NoToken
          /\ last.out = TokenFor(last.req.email)
          /\ last.out.uid = reg[last.req.email].id
       \/ /\ last.status = StatusBadRequest
          /\ ~last.fault
          /\ last.err = ErrInternal(GenerateFailure)
       \/ /\ last.status = StatusBadRequest
          /\ last.fault
          /\ last.err = ErrEmailOrPasswordInvalid
          /\ last.out = NoToken

C5_Witness ==
    /\ last.op = "Login"
    /\ CorrectCredentials(last.req)
    /\ last.status = StatusOK
    /\ last.out.uid = reg[last.req.email].id
    /\ last.out.expiry = expiry

\* No two stored users share an email or an id.
Unique ==
    \A u, v \in users : (u.email = v.email \/ u.id = v.id) => u = v

\* A step in which a Register call with a valid payload gets its response.
RegisterAnswered == last = Boot /\ last'.op = "Register" /\ last'.req.bind
                    /\ Validate(last'.req) = Nil

\* The call answered in this step raced with another one carrying its email:
\* that one is still between its lookup and its Save, or it stored its row
\* while the answered call was between its own lookup and Save.
Racing ==
    LET e == last'.req.email IN
    \/ \E q \in Procs : pc'[q] = "save" /\ data'[q].body.email = e
    \/ \E p \in Procs : pc[p] = "save" /\ pc'[p] = "idle" /\ reg[e] # NoReg

\* C6 as stated, for registrations racing on the table with its unique email
\* index: at most one user per email is ever stored, one call succeeds and
\* every other call fails with ErrEmailExisted (the pre-check saw the row) or
\* with ErrCannotCreateEntity wrapping the constraint violation (Save was
\* rejected); a call that reports success has its row stored.
C6_Original ==
    [][/\ Unique'
       /\ (RegisterAnswered /\ Racing)
           => /\ last'.status = StatusOK
                  => /\ reg[last'.req.email] = NoReg
                     /\ \E u \in users' : u.id = last'.out.id /\ u.email = last'.req.email
              /\ last'.status # StatusOK
                  => /\ last'.status = StatusBadRequest
                     /\ last'.err \in {ErrEmailExisted,
                                       ErrCannotCreateEntity(ErrDB(UniqueViolation))}
                     /\ reg'[last'.req.email] # NoReg]_vars

\* C6 amended, for every Register call, racing or not: at most one user per
\* email is ever stored and at most one call succeeds, with its row stored; a call none of whose storage statements
\* fails for another reason than the constraint either succeeds or fails
\* with one of those two errors while another call's row is stored; a call
\* whose lookup fails returns the lookup's error, and one whose Save fails
\* otherwise returns ErrCannotCreateEntity wrapping that failure.
C6_Amended ==
    [][/\ Unique'
       /\ RegisterAnswered
           => /\ last'.status = StatusOK
                  => /\ reg[last'.req.email] = NoReg
                     /\ \E u \in users' : u.id = last'.out.id /\ u.email = last'.req.email
              /\ last'.status # StatusOK
                  => /\ last'.status = StatusBadRequest
                     /\ users' = users
                     /\ IF last'.fault
                        THEN last'.err = (IF last'.repo = <<"GetUser">>
                                          THEN ErrDB(ConnFailure)
                                          ELSE ErrCannotCreateEntity(ErrDB(ConnFailure)))
                        ELSE /\ last'.err = (IF last'.repo = <<"GetUser">>
                                             THEN ErrEmailExisted
                                             ELSE ErrCannotCreateEntity(ErrDB(UniqueViolation)))
                             /\ reg'[last'.req.email] # NoReg]_vars

C6_Witness ==
    /\ last.op = "Register"
    /\ last.repo = <<"GetUser", "Save">>
    /\ last.err = ErrCannotCreateEntity(ErrDB(UniqueViolation))
    /\ ~last.fault
    /\ \E u \in users : u.email = last.req.email /\ u.id = reg[last.req.email].id

\* C7: DeleteUser for an id no stored user has returns an error wrapped as
\* ErrCannotDeleteEntity, and the handler answers 400, not 200 with true.
C7_DeleteMissingFails ==
    [][(/\ last = Boot
        /\ last'.op = "DeleteUser"
        /\ Parse(last'.req.path).err = Nil
        /\ Matching(users, "id", Parse(last'.req.path).id) = {})
       => /\ last'.status = StatusBadRequest
          /\ Len(last'.err) > 0
          /\ Head(last'.err) = "ErrCannotDeleteEntity"
          /\ last'.out # TRUE]_vars

\* C8: whenever the service call of a handler fails, the handler answers 400
\* with exactly the error the service returned, and never a 200.
C8_ServiceErrorPassedOn ==
    (last.svc # NoCall /\ last.svcErr # Nil)
    => /\ last.status = StatusBadRequest
       /\ last.err = last.svcErr

TypeOK ==
    /\ \A u \in users : u.id \in IDs /\ u.email \in Emails
    /\ \A p \in Procs : pc[p] \in {"idle", "save"}
    /\ usedIDs \subseteq IDs

====
